---- MODULE Spec2Model ----
(***************************************************************************)
(* Model of gwpy/spectrogram/spectrogram.py: the strided PSD spectrogram   *)
(* builder _from_timeseries and its multi-process wrapper from_timeseries. *)
(*                                                                         *)
(* Times are integers (seconds), sample indices are 0-based as in the      *)
(* source.  A sample is represented by its index in the whole series, so   *)
(* that two rows are equal exactly when they were computed from the same   *)
(* samples.  Only series whose stride is a whole number of samples are     *)
(* modelled.                                                               *)
(***************************************************************************)
EXTENDS Integers, Sequences, FiniteSets, TLC

\* ---------------------------------------------------------------- bounds
MaxSize == 9
MaxLaunchSize == 15
MaxRate == 2
MaxStride == 2
MaxProcesses == 2
MaxMinSize == 2
MaxWorkers == 4
MaxFailures == 1

\* the epochs and the explicit FFT lengths (0 stands for None) that are tried
Epochs == {3}

FFTLengths == {0, 1}

VARIABLES
    timeseries,      \* the input TimeSeries
    stride,          \* seconds per spectrogram row
    fftlength,       \* seconds per FFT, 0 for None
    maxprocesses,
    minprocesssize,
    pc,              \* position of the caller of from_timeseries
    processlist,     \* per launched worker, the slice it was given
    wstate,          \* per launched worker, its position
    queue,           \* the ProcessQueue(maxprocesses)
    data,            \* the results taken from the queue, in arrival order
    joined,          \* number of processes already joined
    out              \* the returned Spectrogram

vars == <<timeseries, stride, fftlength, maxprocesses, minprocesssize, pc,
          processlist, wstate, queue, data, joined, out>>

inputs == <<timeseries, stride, fftlength, maxprocesses, minprocesssize>>

\* ------------------------------------------------------------ collaborators
Min(a, b) == IF a < b THEN a ELSE b

Max(a, b) == IF a > b THEN a ELSE b

\* math.ceil of the true division n / d, for n >= 0 and d > 0
Ceil(n, d) == (n + d - 1) \div d

\* the units for which unit / Hertz is defined
KnownUnits == {"V"}

Units == KnownUnits \cup {"undef"}

\* the unit a Spectrogram carries when none was set
DefaultUnit == "dimensionless"

\* timeseries[a:b]: the samples a..b-1 clipped to the series, starting a
\* samples after the epoch
Slice(ts, a, b) ==
    LET lo == Min(a, Len(ts.data))
        hi == Min(Max(b, lo), Len(ts.data))
    IN  [data        |-> SubSeq(ts.data, lo + 1, hi),
         sample_rate |-> ts.sample_rate,
         epoch       |-> ts.epoch + (a \div ts.sample_rate),
         unit        |-> ts.unit]

\* stepseries.psd(...).data: opaque, determined by the samples it is given
psd(stepseries) == stepseries.data

\* nothing returned yet
NoSpectrogram == [rows |-> << >>, nfreqs |-> 0, epoch |-> 0, f0 |-> 0,
                  df |-> <<0, 0>>, dt |-> 0, unit |-> <<"none", "none">>]

\* ------------------------------------------------------- _from_timeseries
\* fftlength = stride when fftlength is None
FFTLength(s, fftl) == IF fftl = 0 THEN s ELSE fftl

\* nsteps = int(timeseries.size // stride), stride in samples
NSteps(ts, s) == Len(ts.data) \div (s * ts.sample_rate)

\* nfreqs = int(fftlength * timeseries.sample_rate.value // 2 + 1)
NFreqs(ts, fftl) == (fftl * ts.sample_rate) \div 2 + 1

\* a step slice that runs one sample into the next stride
StepSeriesOverlap(ts, s, step) ==
    Slice(ts, (s * ts.sample_rate) * step,
              (s * ts.sample_rate) * step + (s * ts.sample_rate) + 1)

\* stepseries = timeseries[idx:idx_end], idx = stride * step
StepSeries(ts, s, step) ==
    Slice(ts, (s * ts.sample_rate) * step,
              (s * ts.sample_rate) * step + (s * ts.sample_rate))

\* out.unit = timeseries.unit / units.Hertz, or 1 / units.Hertz on KeyError
UnitPerHertz(u) == IF u \in KnownUnits THEN <<u, "Hz">> ELSE <<"1", "Hz">>

\* the unit of the returned Spectrogram: set only after the step loop, which
\* the early return for nsteps = 0 never reaches
OutUnit(ts, s) ==
    IF NSteps(ts, s) = 0 THEN <<DefaultUnit, "1">> ELSE UnitPerHertz(ts.unit)

_from_timeseries(ts, s, fftl) ==
    [rows   |-> [step \in 1..NSteps(ts, s) |-> psd(StepSeries(ts, s, step - 1))],
     nfreqs |-> NFreqs(ts, FFTLength(s, fftl)),
     epoch  |-> ts.epoch,
     f0     |-> 0,
     df     |-> <<1, FFTLength(s, fftl)>>,
     dt     |-> s,
     unit   |-> OutUnit(ts, s)]

\* -------------------------------------------------------- from_timeseries
nsteps == NSteps(timeseries, stride)

\* nproc = max(1, int(nsteps // minprocesssize))
NProc(n, m) == Max(1, n \div m)

nproc == NProc(nsteps, minprocesssize)

\* the steps per process rounded down
stepperprocFloor == nsteps \div nproc

\* stepperproc = int(ceil(nsteps / nproc))
stepperproc == Ceil(nsteps, nproc)

\* the samples per process without the sample rate
nsampNoRate == stepperproc * stride

\* nsamp = stepperproc * timeseries.sample_rate.value * stride
nsamp == stepperproc * timeseries.sample_rate * stride

\* timeseries[i * nsamp:(i + 1) * nsamp]
ProcessSlice(i) == Slice(timeseries, i * nsamp, (i + 1) * nsamp)

\* if maxprocesses == 1 or nsteps == 0
SingleProcess == maxprocesses = 1 \/ nsteps = 0

\* a queue without a size
CanPutUnbounded(q) == TRUE

\* ProcessQueue(maxprocesses): put blocks while the queue is full
CanPut(q) == Len(q) < maxprocesses

\* collecting one result per process that has not died
CollectedAlive(d) ==
    Len(d) = Cardinality({w \in 1..Len(wstate) : wstate[w] # "failed"})

\* [queue.get() for p in processlist] is complete
Collected(d) == Len(d) = Len(processlist)

\* a join that returns once the result has been put
TerminatedOrPut(w) == wstate[w] # "running"

\* process.join() returns once the process has terminated
Terminated(w) == wstate[w] \in {"exited", "failed"}

\* the results left in their order of arrival
SortByArrival(list) == list

\* the place of list[i] once the list is sorted by epoch, equal epochs
\* keeping their order
Rank(list, i) ==
    Cardinality({j \in 1..Len(list) :
                    \/ list[j].epoch < list[i].epoch
                    \/ list[j].epoch = list[i].epoch /\ j <= i})

\* out.sort(key=lambda spec: spec.epoch.gps), a stable sort
SortByEpoch(list) ==
    [k \in 1..Len(list) |-> list[CHOOSE i \in 1..Len(list) : Rank(list, i) = k]]

RECURSIVE ConcatRows(_)
ConcatRows(list) ==
    IF list = << >> THEN << >>
    ELSE list[1].rows \o ConcatRows(Tail(list))

\* SpectrogramList.join(): the rows of the partial spectrograms, in list
\* order, under the metadata of the first
Join(list) == [list[1] EXCEPT !.rows = ConcatRows(list)]

\* ------------------------------------------------------------------ Init
Series(size, rate, epoch, unit) ==
    [data |-> [k \in 1..size |-> k - 1], sample_rate |-> rate,
     epoch |-> epoch, unit |-> unit]

\* the calls that are tried; an explicit fftlength is shorter than the stride
Inputs(maxsize) ==
    /\ timeseries \in {Series(size, rate, epoch, unit) :
                          size \in 0..maxsize, rate \in 1..MaxRate,
                          epoch \in Epochs, unit \in Units}
    /\ stride \in 1..MaxStride
    /\ fftlength \in {f \in FFTLengths : f < stride}
    /\ maxprocesses \in 1..MaxProcesses
    /\ minprocesssize \in 1..MaxMinSize

Start ==
    /\ pc = "start"
    /\ processlist = << >>
    /\ wstate = << >>
    /\ queue = << >>
    /\ data = << >>
    /\ joined = 0
    /\ out = NoSpectrogram

Init == Inputs(MaxSize) /\ nproc <= MaxWorkers /\ Start

\* longer series, whatever the number of processes the call starts
LaunchInit == Inputs(MaxLaunchSize) /\ Start

\* --------------------------------------------------------------- actions
\* lines 150-153: the single-process return
ReturnSingle ==
    /\ pc = "start"
    /\ SingleProcess
    /\ out' = _from_timeseries(timeseries, stride, fftlength)
    /\ pc' = "done"
    /\ UNCHANGED <<inputs, processlist, wstate, queue, data, joined>>

\* lines 162-166: otherwise build process list
BuildQueue ==
    /\ pc = "start"
    /\ ~SingleProcess
    /\ pc' = "spawn"
    /\ UNCHANGED <<inputs, processlist, wstate, queue, data, joined, out>>

\* lines 167-172: one iteration of the loop that starts the processes
StartProcess ==
    /\ pc = "spawn"
    /\ Len(processlist) < nproc
    /\ processlist' = Append(processlist, ProcessSlice(Len(processlist)))
    /\ wstate' = Append(wstate, "running")
    /\ pc' = IF Len(processlist') = nproc THEN "collect" ELSE "spawn"
    /\ UNCHANGED <<inputs, queue, data, joined, out>>

\* lines 156-159: _specgram in worker w computes its spectrogram and puts it
Put(w) ==
    /\ wstate[w] = "running"
    /\ CanPut(queue)
    /\ queue' = Append(queue, _from_timeseries(processlist[w], stride, fftlength))
    /\ wstate' = [wstate EXCEPT ![w] = "put"]
    /\ UNCHANGED <<inputs, pc, processlist, data, joined, out>>

\* worker w returns from _specgram and its process terminates
Exit(w) ==
    /\ wstate[w] = "put"
    /\ wstate' = [wstate EXCEPT ![w] = "exited"]
    /\ UNCHANGED <<inputs, pc, processlist, queue, data, joined, out>>

\* worker w dies in _from_timeseries (its PSD raises) before q.put
Fail(w) ==
    /\ wstate[w] = "running"
    /\ Cardinality({v \in 1..Len(wstate) : wstate[v] = "failed"}) < MaxFailures
    /\ wstate' = [wstate EXCEPT ![w] = "failed"]
    /\ UNCHANGED <<inputs, pc, processlist, queue, data, joined, out>>

\* line 175: one queue.get() of the list comprehension
Get ==
    /\ pc = "collect"
    /\ queue # << >>
    /\ data' = Append(data, Head(queue))
    /\ queue' = Tail(queue)
    /\ pc' = IF Collected(data') THEN "join" ELSE "collect"
    /\ UNCHANGED <<inputs, processlist, wstate, joined, out>>

\* lines 176-177: process.join() of the next process in processlist
JoinProcess ==
    /\ pc = "join"
    /\ joined < Len(processlist)
    /\ Terminated(joined + 1)
    /\ joined' = joined + 1
    /\ pc' = IF joined' = Len(processlist) THEN "merge" ELSE "join"
    /\ UNCHANGED <<inputs, processlist, wstate, queue, data, out>>

\* lines 180-182: format and return
Merge ==
    /\ pc = "merge"
    /\ out' = Join(SortByEpoch(data))
    /\ pc' = "done"
    /\ UNCHANGED <<inputs, processlist, wstate, queue, data, joined>>

Next ==
    \/ ReturnSingle
    \/ BuildQueue
    \/ StartProcess
    \/ Get
    \/ JoinProcess
    \/ Merge
    \/ \E w \in 1..Len(wstate) : Put(w)
    \/ \E w \in 1..Len(wstate) : Exit(w)
    \/ \E w \in 1..Len(wstate) : Fail(w)

Spec == Init /\ [][Next]_vars

\* the same program when no worker fails; under FairSpec some process that
\* can take a step eventually takes one
NextNoFail ==
    \/ ReturnSingle
    \/ BuildQueue
    \/ StartProcess
    \/ Get
    \/ JoinProcess
    \/ Merge
    \/ \E w \in 1..Len(wstate) : Put(w)
    \/ \E w \in 1..Len(wstate) : Exit(w)

\* the caller up to the end of the loop that starts the processes
Launch ==
    \/ ReturnSingle
    \/ BuildQueue
    \/ StartProcess

LaunchSpec == LaunchInit /\ [][Launch]_vars

FairSpec == Init /\ [][NextNoFail]_vars /\ WF_vars(NextNoFail)

\* ------------------------------------------------------------ properties
\* what the properties below expect, written out from the call's arguments
ExpStrideSamples == stride * timeseries.sample_rate

ExpSteps == Len(timeseries.data) \div ExpStrideSamples

ExpFFTLength == IF fftlength = 0 THEN stride ELSE fftlength

ExpProc == IF ExpSteps \div minprocesssize > 1 THEN ExpSteps \div minprocesssize ELSE 1

ExpStepsPerProc == (ExpSteps + ExpProc - 1) \div ExpProc

\* the samples a..b-1 of the series, those beyond its end left out
ExpSamples(a, b) ==
    LET hi == IF b < Len(timeseries.data) THEN b ELSE Len(timeseries.data)
    IN  [k \in 1..(IF hi > a THEN hi - a ELSE 0) |-> a + k - 1]

\* the number of full strides in a slice
Strides(ts) == Len(ts.data) \div ExpStrideSamples

RECURSIVE SumRows(_)
SumRows(list) ==
    IF list = << >> THEN 0 ELSE Len(list[1].rows) + SumRows(Tail(list))

NonEmpty(spec) == Len(spec.rows) > 0

SpanEnd(spec) == spec.epoch + Len(spec.rows) * spec.dt

MultiProcess == maxprocesses # 1 /\ ExpSteps # 0

AllLaunched == MultiProcess /\ pc \in {"collect", "join", "merge", "done"}

\* C1: on the multi-process path, whatever the order in which the results
\* arrived, the returned Spectrogram has the rows, in number and in value,
\* that _from_timeseries computes for the whole series.
C1_ParallelEqualsSingle ==
    (pc = "done" /\ MultiProcess) =>
        /\ Len(out.rows) = ExpSteps
        /\ \A i \in 1..ExpSteps :
              out.rows[i] = ExpSamples((i - 1) * ExpStrideSamples, i * ExpStrideSamples)
        /\ out.rows = _from_timeseries(timeseries, stride, fftlength).rows

C1_Witness ==
    /\ pc = "done"
    /\ MultiProcess
    /\ Len(data) >= 3
    /\ data # SortByEpoch(data)
    /\ \E i \in 1..Len(data) : ~NonEmpty(data[i])

\* C2: the collected partial spectrograms, sorted by epoch, tile
\* [epoch, epoch + nsteps*stride): the first non-empty partial starts at the
\* epoch, each non-empty partial ends where the next one starts, the last
\* ends at epoch + nsteps*stride, and the row counts sum to nsteps.  A partial
\* without rows spans no time.
C2_PartialsTile ==
    (MultiProcess /\ pc \in {"join", "merge", "done"}) =>
        LET sorted == SelectSeq(SortByEpoch(data), NonEmpty)
        IN  /\ SumRows(data) = ExpSteps
            /\ Len(sorted) >= 1
            /\ sorted[1].epoch = timeseries.epoch
            /\ \A i \in 1..(Len(sorted) - 1) : SpanEnd(sorted[i]) = sorted[i + 1].epoch
            /\ SpanEnd(sorted[Len(sorted)]) = timeseries.epoch + ExpSteps * stride

C2_Witness ==
    /\ MultiProcess
    /\ pc = "merge"
    /\ Len(data) >= 4
    /\ data # SortByEpoch(data)
    /\ \E i \in 1..Len(data) : ~NonEmpty(data[i])

\* C3: _from_timeseries returns nsteps = floor(size / (stride*sample_rate))
\* rows and nfreqs = floor(fftlength*sample_rate / 2) + 1 frequency bins; row
\* i is the PSD of the samples [i*stride_samples, (i+1)*stride_samples), so
\* every sample below nsteps*stride_samples is used in exactly one row and
\* the samples beyond are used in none.
C3_StridedRows ==
    (pc = "done" /\ ~MultiProcess) =>
        /\ Len(out.rows) = ExpSteps
        /\ out.nfreqs = (ExpFFTLength * timeseries.sample_rate) \div 2 + 1
        /\ \A i \in 1..ExpSteps :
              out.rows[i] = ExpSamples((i - 1) * ExpStrideSamples, i * ExpStrideSamples)
        /\ \A x \in 0..(Len(timeseries.data) - 1) :
              Cardinality({i \in 1..Len(out.rows) :
                              \E k \in 1..Len(out.rows[i]) : out.rows[i][k] = x})
                  = IF x < ExpSteps * ExpStrideSamples THEN 1 ELSE 0

C3_Witness ==
    /\ pc = "done"
    /\ ~MultiProcess
    /\ Len(out.rows) >= 2
    /\ fftlength # 0
    /\ timeseries.sample_rate > 1
    /\ Len(timeseries.data) > ExpSteps * ExpStrideSamples

\* C4: a series shorter than one stride gives, without any worker, a
\* zero-row Spectrogram with epoch = series epoch, dt = stride,
\* df = 1/fftlength, f0 = 0 and the unit of the builder's unit rule.
C4_ZeroStepMetadata ==
    (pc = "done" /\ ExpSteps = 0) =>
        /\ processlist = << >>
        /\ out.rows = << >>
        /\ out.epoch = timeseries.epoch
        /\ out.dt = stride
        /\ out.df = <<1, ExpFFTLength>>
        /\ out.f0 = 0
        /\ out.unit = (IF timeseries.unit \in KnownUnits
                       THEN <<timeseries.unit, "Hz">> ELSE <<"1", "Hz">>)

\* C5: the number of worker processes launched never exceeds maxprocesses.
C5_WorkersWithinMax == Len(processlist) <= maxprocesses

\* C6: with nsteps >= minprocesssize, every launched worker is given a slice
\* of at least minprocesssize full strides.
C6_WorkersHaveMinSteps ==
    (MultiProcess /\ ExpSteps >= minprocesssize) =>
        \A w \in 1..Len(processlist) : Strides(processlist[w]) >= minprocesssize

\* C7: the sort-and-concatenate step starts, and a merged Spectrogram is
\* returned, only when exactly one result per launched worker has been taken
\* from the queue, the queue is empty and every worker has terminated.
C7_MergeAfterBarrier ==
    (MultiProcess /\ pc \in {"merge", "done"}) =>
        /\ Len(processlist) = ExpProc
        /\ Len(data) = ExpProc
        /\ queue = << >>
        /\ \A w \in 1..Len(processlist) :
              /\ wstate[w] = "exited"
              /\ Cardinality({i \in 1..Len(data) :
                                 data[i].epoch = processlist[w].epoch}) = 1

C7_Witness ==
    /\ MultiProcess
    /\ pc = "merge"
    /\ Len(processlist) >= 3
    /\ data # SortByEpoch(data)

\* C8 as stated: exactly nproc workers, worker i given the samples
\* [i*nsamp, (i+1)*nsamp) clipped to the series, and every partition except
\* the last covers exactly steps_per_proc strides.
C8_OnlyLastShort ==
    AllLaunched =>
        /\ Len(processlist) = ExpProc
        /\ \A i \in 0..(ExpProc - 1) :
              /\ processlist[i + 1].data =
                     ExpSamples(i * ExpStepsPerProc * ExpStrideSamples,
                                (i + 1) * ExpStepsPerProc * ExpStrideSamples)
              /\ i < ExpProc - 1 => Strides(processlist[i + 1]) = ExpStepsPerProc

\* C8 amended: exactly nproc workers, worker i given the samples
\* [i*nsamp, (i+1)*nsamp) clipped to the series, which hold
\* min(steps_per_proc, max(0, nsteps - i*steps_per_proc)) full strides: a
\* partition that is shorter than steps_per_proc need not be the last, and
\* every partition after it holds no stride.
C8_PartitionsClipped ==
    AllLaunched =>
        /\ Len(processlist) = ExpProc
        /\ \A i \in 0..(ExpProc - 1) :
              /\ processlist[i + 1].data =
                     ExpSamples(i * ExpStepsPerProc * ExpStrideSamples,
                                (i + 1) * ExpStepsPerProc * ExpStrideSamples)
              /\ Strides(processlist[i + 1]) =
                     (IF ExpSteps - i * ExpStepsPerProc >= ExpStepsPerProc
                      THEN ExpStepsPerProc
                      ELSE IF ExpSteps - i * ExpStepsPerProc > 0
                           THEN ExpSteps - i * ExpStepsPerProc ELSE 0)
              /\ \A j \in 0..(i - 1) :
                     Strides(processlist[j + 1]) < ExpStepsPerProc
                         => Strides(processlist[i + 1]) = 0

C8_Witness ==
    /\ AllLaunched
    /\ \E i \in 1..(Len(processlist) - 1) :
          /\ Strides(processlist[i]) < ExpStepsPerProc
          /\ Strides(processlist[i]) > 0

\* C9: once a worker has terminated without putting a result, the call never
\* returns: the caller stays in the collect step, and no Spectrogram, merged
\* from the other results or not, is returned.
C9_NoReturnAfterFailure ==
    (\E w \in 1..Len(wstate) : wstate[w] = "failed") =>
        /\ pc \in {"spawn", "collect"}
        /\ out = NoSpectrogram

C9_Witness ==
    /\ pc = "collect"
    /\ Len(processlist) >= 3
    /\ \E w \in 1..Len(wstate) : wstate[w] = "failed"
    /\ \A w \in 1..Len(wstate) : wstate[w] \in {"failed", "exited"}
    /\ queue = << >>
    /\ Len(data) = Len(processlist) - 1

\* C10: when no worker fails and scheduling is fair, every call returns, the
\* caller and the workers never all wait, and the queue never holds more than
\* maxprocesses results.
C10_EventuallyReturns ==
    /\ <>(pc = "done")
    /\ [](pc = "done" \/ ENABLED NextNoFail)
    /\ [](Len(queue) <= maxprocesses)

C10_Witness ==
    /\ pc = "collect"
    /\ ExpProc > maxprocesses
    /\ Len(queue) = maxprocesses
    /\ \E w \in 1..Len(wstate) : wstate[w] = "running"

====
